---- MODULE Spec2Model ----
(***************************************************************************)
(* Model of ego-binary-tree: BinaryTree<T>, a wrapper around an            *)
(* ego_tree::Tree<Option<T>> (src/binary_tree.rs), and the binary_tree!    *)
(* construction macro (src/macros.rs).                                     *)
(*                                                                         *)
(* The arena of ego_tree is a sequence of nodes; a node id is its index.   *)
(* Option<T> is modelled by None (0) and the values 1..MaxVal.             *)
(* Views are borrow handles: BinaryNodeRef borrows the tree shared,        *)
(* BinaryNodeMut borrows it (or the view it was obtained from) exclusive.  *)
(***************************************************************************)
EXTENDS Integers, Sequences, FiniteSets, TLC

\* ---- bounds -------------------------------------------------------------
\* A write that has to allocate a child pair is taken only while the arena
\* holds fewer than MaxNodes nodes.
MaxNodes == 6
\* Values are 1..MaxVal.
MaxVal == 2
\* At most MaxRefs shared views are alive at a time.
MaxRefs == 2
\* A nested literal names at most MaxSpecNodes nodes below the root.
MaxSpecNodes == 3

Values == 1..MaxVal
\* Option::None, as a node value and as an absent NodeId / absent view.
None == 0
\* The outcome of a failed expect(...).
Panic == -1

VARIABLES
    tree,    \* BinaryTree.inner: the arena, a sequence of ego_tree nodes
    muts,    \* alive BinaryNodeMut views, a borrow stack of node ids
    refs,    \* alive BinaryNodeRef views, a set of node ids
    failed,  \* TRUE once an expect(...) has panicked
    last,    \* the last call: its name, receiver, argument and result
    input    \* the literal handed to binary_tree!

vars == <<tree, muts, refs, failed, last, input>>

\* ---- ego_tree::Tree<Option<T>> as used by the wrapper --------------------

\* Tree::new(value): an arena holding the root alone.
TreeNew(value) ==
    << [value |-> value, parent |-> None, prev_sibling |-> None,
        next_sibling |-> None, children |-> <<>>] >>

\* The root is the first node of the arena.
RootId == 1

\* NodeMut::has_children.
HasChildren(t, id) == t[id].children # <<>>

\* NodeMut::first_child / NodeRef::first_child: Option<NodeId>.
FirstChild(t, id) == IF HasChildren(t, id) THEN t[id].children[1] ELSE None

\* NodeMut::last_child: Option<NodeId>.
LastChild(t, id) == IF HasChildren(t, id) THEN t[id].children[2] ELSE None

\* NodeMut::append(value): push an orphan on the arena and link it as the
\* last child of id.
AppendChild(t, id, value) ==
    LET new == Len(t) + 1
        lastc == LastChild(t, id)
        orphan == [value |-> value, parent |-> id, prev_sibling |-> lastc,
                   next_sibling |-> None, children |-> <<>>]
        linked == IF lastc = None THEN t
                  ELSE [t EXCEPT ![lastc].next_sibling = new]
        kids == IF lastc = None THEN <<new, new>>
                ELSE <<FirstChild(t, id), new>>
    IN  Append([linked EXCEPT ![id].children = kids], orphan)

\* NodeRef::children(): the ids the iterator yields, front to back.  The
\* iterator stops once its front has met its back.
RECURSIVE ChildrenFrom(_, _, _)
ChildrenFrom(t, front, back) ==
    IF front = None THEN <<>>
    ELSE IF front = back THEN <<front>>
    ELSE <<front>> \o ChildrenFrom(t, t[front].next_sibling, back)

Children(t, id) == ChildrenFrom(t, FirstChild(t, id), LastChild(t, id))

\* ---- BinaryTree ------------------------------------------------------------

\* new with the root's value appended as its children: the child slots start
\* populated.
NewPopulatedChildren(root_value) ==
    AppendChild(AppendChild(TreeNew(root_value), RootId, root_value), RootId, root_value)

\* new with one append: the root starts with a single child.
NewOneChild(root_value) == AppendChild(TreeNew(root_value), RootId, None)

\* BinaryTree::new(root_value).
New(root_value) ==
    AppendChild(AppendChild(TreeNew(root_value), RootId, None), RootId, None)

\* ---- BinaryNodeRef ---------------------------------------------------------
\* Each returns Panic, None, or the node the returned view wraps.

RefLeft(t, n) ==
    LET children == Children(t, n)
    IN  IF Len(children) < 1 THEN Panic
        ELSE IF t[children[1]].value = None THEN None
        ELSE children[1]

RefRight(t, n) ==
    LET children == Children(t, n)
    IN  IF Len(children) < 2 THEN Panic
        ELSE IF t[children[2]].value = None THEN None
        ELSE children[2]

\* BinaryNodeRef::value: Panic or the value.
RefValue(t, n) == IF t[n].value = None THEN Panic ELSE t[n].value

\* ---- BinaryNodeMut ---------------------------------------------------------

\* left_inner taking last_child, as right_inner does.
LeftInnerLastChild(t, n) == IF LastChild(t, n) = None THEN Panic ELSE LastChild(t, n)

LeftInner(t, n) == IF FirstChild(t, n) = None THEN Panic ELSE FirstChild(t, n)

RightInner(t, n) == IF LastChild(t, n) = None THEN Panic ELSE LastChild(t, n)

\* left without the is_none test: a view of whatever node fills the slot.
MutLeftNoCheck(t, n) == LeftInner(t, n)

MutLeft(t, n) ==
    LET left_inner == LeftInner(t, n)
    IN  IF left_inner = Panic THEN Panic
        ELSE IF t[left_inner].value = None THEN None
        ELSE left_inner

MutRight(t, n) ==
    LET right_inner == RightInner(t, n)
    IN  IF right_inner = Panic THEN Panic
        ELSE IF t[right_inner].value = None THEN None
        ELSE right_inner

\* BinaryNodeMut::value: Panic or the value behind the returned &mut T.
MutValue(t, n) == IF t[n].value = None THEN Panic ELSE t[n].value

\* A store through the &mut T that value() returned.
StoreValue(t, n, value) == [t EXCEPT ![n].value = value]

\* The write without lazy materialisation: the value is set, no child pair is
\* ever appended.
SetInnerNoChildren(t, inner, value) == [t EXCEPT ![inner].value = value]

\* The write without the has_children test: a child pair is appended on
\* every call.
SetInnerNoCheck(t, inner, value) ==
    AppendChild(AppendChild([t EXCEPT ![inner].value = value], inner, None), inner, None)

\* Reset-on-overwrite: the slot's children are unlinked and a fresh child pair
\* is appended on every call.
SetInnerReset(t, inner, value) ==
    AppendChild(AppendChild([t EXCEPT ![inner].value = value, ![inner].children = <<>>],
                            inner, None), inner, None)

\* The body of set_right / set_left once the slot's inner node is at hand:
\* overwrite the value, then give the node its child pair if it has none.
SetInner(t, inner, value) ==
    LET written == [t EXCEPT ![inner].value = value]
    IN  IF ~HasChildren(written, inner)
        THEN AppendChild(AppendChild(written, inner, None), inner, None)
        ELSE written

\* set_right going through left_inner, as set_left does.
SetRightOnLeftInner(t, n, value) ==
    LET left_inner == LeftInner(t, n)
    IN  IF left_inner = Panic THEN [tree |-> t, ret |-> Panic]
        ELSE [tree |-> SetInner(t, left_inner, value), ret |-> left_inner]

\* set_right(value): the arena after the call and the node of the view
\* returned (Panic, with the arena untouched, when the expect fails).
SetRight(t, n, value) ==
    LET right_inner == RightInner(t, n)
    IN  IF right_inner = Panic THEN [tree |-> t, ret |-> Panic]
        ELSE [tree |-> SetInner(t, right_inner, value), ret |-> right_inner]

SetLeft(t, n, value) ==
    LET left_inner == LeftInner(t, n)
    IN  IF left_inner = Panic THEN [tree |-> t, ret |-> Panic]
        ELSE [tree |-> SetInner(t, left_inner, value), ret |-> left_inner]

\* ---- the program as a state machine --------------------------------------

Call(op, n, v, ret, was) == [op |-> op, n |-> n, v |-> v, ret |-> ret, was |-> was]

\* The exclusive view that can be used: the one no alive view reborrows.
Top == muts[Len(muts)]

\* let tree = BinaryTree::new(r), which is also binary_tree!(r).
Init ==
    \E r \in Values :
        /\ tree = New(r)
        /\ muts = <<>>
        /\ refs = {}
        /\ failed = FALSE
        /\ last = Call("new", None, r, RootId, None)
        /\ input = <<r>>

\* A shared borrow of the tree (&self) can be taken: no exclusive view is alive.
SharedBorrow == muts = <<>>

\* root_mut taking &self: it asks only that no exclusive view is alive.
ExclusiveBorrowAsShared == muts = <<>>

\* An exclusive borrow of the tree (&mut self) can be taken: no view is alive.
ExclusiveBorrow == muts = <<>> /\ refs = {}

\* tree.root().
Root ==
    /\ ~failed
    /\ SharedBorrow
    /\ Cardinality(refs \cup {RootId}) <= MaxRefs
    /\ refs' = refs \cup {RootId}
    /\ last' = Call("root", None, None, RootId, None)
    /\ UNCHANGED <<tree, muts, failed, input>>

\* tree.root_mut().
RootMut ==
    /\ ~failed
    /\ ExclusiveBorrow
    /\ muts' = <<RootId>>
    /\ last' = Call("root_mut", None, None, RootId, None)
    /\ UNCHANGED <<tree, refs, failed, input>>

\* The outcome of a navigation call on a shared view: a panic, an absent
\* child, or one more shared view (BinaryNodeRef is Copy and outlives &self).
RefStep(op, n, ret) ==
    /\ last' = Call(op, n, None, ret, None)
    /\ failed' = (ret = Panic)
    /\ refs' = IF ret \in {Panic, None} THEN refs ELSE refs \cup {ret}
    /\ Cardinality(refs') <= MaxRefs
    /\ UNCHANGED <<tree, muts, input>>

RefLeftCall == \E n \in refs : ~failed /\ RefStep("ref_left", n, RefLeft(tree, n))

RefRightCall == \E n \in refs : ~failed /\ RefStep("ref_right", n, RefRight(tree, n))

RefValueCall ==
    \E n \in refs :
        /\ ~failed
        /\ last' = Call("ref_value", n, None, RefValue(tree, n), None)
        /\ failed' = (RefValue(tree, n) = Panic)
        /\ UNCHANGED <<tree, muts, refs, input>>

\* A shared view goes out of scope.
RefDrop ==
    \E n \in refs :
        /\ ~failed
        /\ refs' = refs \ {n}
        /\ last' = Call("drop", n, None, None, None)
        /\ UNCHANGED <<tree, muts, failed, input>>

\* The outcome of a navigation call on the usable exclusive view: the view
\* returned reborrows the receiver (&mut self) for as long as it is alive.
MutStep(op, ret) ==
    /\ last' = Call(op, Top, None, ret, None)
    /\ failed' = (ret = Panic)
    /\ muts' = IF ret \in {Panic, None} THEN muts ELSE Append(muts, ret)
    /\ UNCHANGED <<tree, refs, input>>

MutLeftCall == ~failed /\ muts # <<>> /\ MutStep("mut_left", MutLeft(tree, Top))

MutRightCall == ~failed /\ muts # <<>> /\ MutStep("mut_right", MutRight(tree, Top))

\* *n.value() = v on the usable exclusive view.
MutValueCall ==
    \E v \in Values :
        /\ ~failed
        /\ muts # <<>>
        /\ last' = Call("mut_value", Top, v, MutValue(tree, Top), None)
        /\ failed' = (MutValue(tree, Top) = Panic)
        /\ tree' = IF MutValue(tree, Top) = Panic THEN tree
                   ELSE StoreValue(tree, Top, v)
        /\ UNCHANGED <<muts, refs, input>>

\* The outcome of a write on the usable exclusive view.  inner is the slot's
\* node, res the outcome of the call.
SetStep(op, inner, v, res) ==
    /\ inner # Panic => (HasChildren(tree, inner) \/ Len(tree) < MaxNodes)
    /\ last' = Call(op, Top, v, res.ret,
                    IF inner = Panic THEN None ELSE tree[inner].value)
    /\ failed' = (res.ret = Panic)
    /\ tree' = res.tree
    /\ muts' = IF res.ret = Panic THEN muts ELSE Append(muts, res.ret)
    /\ UNCHANGED <<refs, input>>

SetLeftCall ==
    \E v \in Values :
        /\ ~failed
        /\ muts # <<>>
        /\ SetStep("set_left", LeftInner(tree, Top), v, SetLeft(tree, Top, v))

SetRightCall ==
    \E v \in Values :
        /\ ~failed
        /\ muts # <<>>
        /\ SetStep("set_right", RightInner(tree, Top), v, SetRight(tree, Top, v))

\* The usable exclusive view goes out of scope; the view it reborrowed (or
\* the tree) is usable again.
MutDrop ==
    /\ ~failed
    /\ muts # <<>>
    /\ muts' = SubSeq(muts, 1, Len(muts) - 1)
    /\ last' = Call("drop", Top, None, None, None)
    /\ UNCHANGED <<tree, refs, failed, input>>

Next ==
    \/ Root
    \/ RootMut
    \/ RefLeftCall
    \/ RefRightCall
    \/ RefValueCall
    \/ RefDrop
    \/ MutLeftCall
    \/ MutRightCall
    \/ MutValueCall
    \/ SetLeftCall
    \/ SetRightCall
    \/ MutDrop

Spec == Init /\ [][Next]_vars

\* ---- binary_tree! ----------------------------------------------------------
\* A literal is <<value>> (a leaf) or <<value, children>> (value => { ... });
\* children is [left |-> side, right |-> side], where a side is <<>> (the key
\* is omitted), <<value>> or <<value, children>>.

RECURSIVE Expand(_, _, _)

\* Each arm returns [tree, ret]: the arena after the block, and ret = Panic
\* when a call of the block panicked.

\* (@ $n { })
ArmEmpty(t, n, c) == [tree |-> t, ret |-> None]

\* (@ $n { right: $value => $children })
ArmRightChildren(t, n, c) ==
    LET node == SetRight(t, n, c.right[1])
    IN  IF node.ret = Panic THEN node ELSE Expand(node.tree, node.ret, c.right[2])

\* (@ $n { left: $value => $children })
ArmLeftChildren(t, n, c) ==
    LET node == SetLeft(t, n, c.left[1])
    IN  IF node.ret = Panic THEN node ELSE Expand(node.tree, node.ret, c.left[2])

\* (@ $n { left: $value })
ArmLeftLeaf(t, n, c) == SetLeft(t, n, c.left[1])

\* (@ $n { right: $value })
ArmRightLeaf(t, n, c) == SetRight(t, n, c.right[1])

\* The arm expanding $right_children on $n instead of right_node.
ArmLeafRightChildrenOnParent(t, n, c) ==
    LET left == SetLeft(t, n, c.left[1])
        right_node == SetRight(left.tree, n, c.right[1])
    IN  IF left.ret = Panic THEN left
        ELSE IF right_node.ret = Panic THEN right_node
        ELSE Expand(right_node.tree, n, c.right[2])

\* (@ $n { left: $left_value, right: $right_value => $right_children })
ArmLeafRightChildren(t, n, c) ==
    LET left == SetLeft(t, n, c.left[1])
        right_node == SetRight(left.tree, n, c.right[1])
    IN  IF left.ret = Panic THEN left
        ELSE IF right_node.ret = Panic THEN right_node
        ELSE Expand(right_node.tree, right_node.ret, c.right[2])

\* (@ $n { left: $left_value, right: $right_value })
ArmLeafLeaf(t, n, c) ==
    LET left == SetLeft(t, n, c.left[1])
    IN  IF left.ret = Panic THEN left ELSE SetRight(left.tree, n, c.right[1])

\* (@ $n { left: $left_value => $left_children, right: $right_value })
ArmLeftChildrenRightLeaf(t, n, c) ==
    LET left_node == SetLeft(t, n, c.left[1])
        done == Expand(left_node.tree, left_node.ret, c.left[2])
    IN  IF left_node.ret = Panic THEN left_node
        ELSE IF done.ret = Panic THEN done
        ELSE SetRight(done.tree, n, c.right[1])

\* (@ $n { left: $left_value => $left_children,
\*         right: $right_value => $right_children })
ArmBothChildren(t, n, c) ==
    LET left_node == SetLeft(t, n, c.left[1])
        done == Expand(left_node.tree, left_node.ret, c.left[2])
        right_node == SetRight(done.tree, n, c.right[1])
    IN  IF left_node.ret = Panic THEN left_node
        ELSE IF done.ret = Panic THEN done
        ELSE IF right_node.ret = Panic THEN right_node
        ELSE Expand(right_node.tree, right_node.ret, c.right[2])

\* binary_tree!(@ $n $children): the arm whose pattern the tokens match.
Expand(t, n, c) ==
    LET l == Len(c.left)
        r == Len(c.right)
    IN  CASE l = 0 /\ r = 0 -> ArmEmpty(t, n, c)
          [] l = 0 /\ r = 2 -> ArmRightChildren(t, n, c)
          [] l = 2 /\ r = 0 -> ArmLeftChildren(t, n, c)
          [] l = 1 /\ r = 0 -> ArmLeftLeaf(t, n, c)
          [] l = 0 /\ r = 1 -> ArmRightLeaf(t, n, c)
          [] l = 1 /\ r = 2 -> ArmLeafRightChildren(t, n, c)
          [] l = 1 /\ r = 1 -> ArmLeafLeaf(t, n, c)
          [] l = 2 /\ r = 1 -> ArmLeftChildrenRightLeaf(t, n, c)
          [] l = 2 /\ r = 2 -> ArmBothChildren(t, n, c)

\* binary_tree!($root) and binary_tree!($root => $children).
BinaryTreeMacro(in) ==
    IF Len(in) = 1 THEN [tree |-> New(in[1]), ret |-> None]
    ELSE Expand(New(in[1]), RootId, in[2])

\* The literals that name at most MaxSpecNodes nodes below the root.
RECURSIVE ChildrenExact(_)
SideExact(k) ==
    IF k = 0 THEN {<<>>}
    ELSE (IF k = 1 THEN {<<v>> : v \in Values} ELSE {})
         \cup {<<v, c>> : v \in Values, c \in ChildrenExact(k - 1)}

ChildrenExact(k) ==
    UNION {{[left |-> l, right |-> r] : l \in SideExact(i), r \in SideExact(k - i)}
           : i \in 0..k}

MacroInputs ==
    {<<v>> : v \in Values}
    \cup {<<v, c>> : v \in Values, c \in UNION {ChildrenExact(k) : k \in 0..MaxSpecNodes}}

\* Nothing is built yet.
InitMacro ==
    /\ input \in MacroInputs
    /\ tree = <<>>
    /\ muts = <<>>
    /\ refs = {}
    /\ failed = FALSE
    /\ last = Call("none", None, None, None, None)

\* let tree = binary_tree!(input);
MacroCall ==
    /\ tree = <<>>
    /\ ~failed
    /\ LET built == BinaryTreeMacro(input)
       IN  /\ tree' = built.tree
           /\ failed' = (built.ret = Panic)
    /\ last' = Call("binary_tree!", None, input[1], RootId, None)
    /\ UNCHANGED <<muts, refs, input>>

NextMacro == MacroCall

SpecMacro == InitMacro /\ [][NextMacro]_vars

\* ---- observations used by the properties ------------------------------------

NodeIds(t) == 1..Len(t)

IsView(x) == x \notin {Panic, None}

\* What a reader sees from view n down, by value(), left() and right() of
\* shared views alone: the set of <<path, value>>.
RECURSIVE LayoutFrom(_, _, _)
LayoutFrom(t, n, path) ==
    LET l == RefLeft(t, n)
        r == RefRight(t, n)
    IN  {<<path, RefValue(t, n)>>}
        \cup (IF l = Panic THEN {<<path \o <<"L">>, Panic>>}
              ELSE IF l = None THEN {}
              ELSE LayoutFrom(t, l, path \o <<"L">>))
        \cup (IF r = Panic THEN {<<path \o <<"R">>, Panic>>}
              ELSE IF r = None THEN {}
              ELSE LayoutFrom(t, r, path \o <<"R">>))

Layout(t) == LayoutFrom(t, RootId, <<>>)

\* The nodes whose parent link names id.
ChildSet(t, id) == {c \in NodeIds(t) : t[c].parent = id}

\* The last call was op, on a view that did not panic.
Did(op) == last.op = op /\ ~failed

\* ---- C1 ----------------------------------------------------------------------
\* C1: right after BinaryTree::new(r), root().value() is r and root().left()
\* and root().right() are both absent.
C1_NewRoot ==
    last.op = "new" =>
        /\ RefValue(tree, RootId) = last.v
        /\ RefLeft(tree, RootId) = None
        /\ RefRight(tree, RootId) = None

C1_Witness == last.op = "new" /\ last.v = MaxVal /\ Len(tree) = 3 /\ ~failed

\* ---- C2 ----------------------------------------------------------------------
\* C2: after n.set_left(v) the left child of n is present with value v, after
\* n.set_right(v) the right child of n is present with value v, whether the
\* slot was a placeholder or populated, and the view returned is a view of
\* that slot.
C2_SetWrites ==
    /\ last.op = "set_left" =>
          /\ ~failed
          /\ IsView(RefLeft(tree, last.n))
          /\ RefValue(tree, RefLeft(tree, last.n)) = last.v
          /\ last.ret = RefLeft(tree, last.n)
          /\ MutLeft(tree, last.n) = last.ret
          /\ Top = last.ret
    /\ last.op = "set_right" =>
          /\ ~failed
          /\ IsView(RefRight(tree, last.n))
          /\ RefValue(tree, RefRight(tree, last.n)) = last.v
          /\ last.ret = RefRight(tree, last.n)
          /\ MutRight(tree, last.n) = last.ret
          /\ Top = last.ret

\* set_right has just overwritten, by another value, the populated right
\* slot of a node below the root.
C2_Witness ==
    /\ Did("set_right")
    /\ last.n # RootId
    /\ last.was \notin {None, last.v}
    /\ RefLeft(tree, last.n) = None

\* ---- C3 ----------------------------------------------------------------------
\* C3 as stated: after n.set_left(v), in any reachable tree state,
\* n.left().unwrap().left() and n.left().unwrap().right() are both absent.
C3_Original ==
    Did("set_left") =>
        /\ IsView(MutLeft(tree, last.n))
        /\ MutLeft(tree, MutLeft(tree, last.n)) = None
        /\ MutRight(tree, MutLeft(tree, last.n)) = None

\* C3 as amended: when the left slot of n is a placeholder before the call,
\* after n.set_left(v), n.left().unwrap().left() and n.left().unwrap().right()
\* are both absent.
C3_FreshChildren ==
    (last.op = "set_left" /\ last.was = None) =>
        /\ ~failed
        /\ IsView(MutLeft(tree, last.n))
        /\ MutLeft(tree, MutLeft(tree, last.n)) = None
        /\ MutRight(tree, MutLeft(tree, last.n)) = None
        /\ RefLeft(tree, MutLeft(tree, last.n)) = None
        /\ RefRight(tree, MutLeft(tree, last.n)) = None

C3_Witness ==
    /\ Did("set_left")
    /\ last.was = None
    /\ last.n # RootId
    /\ Len(muts) >= 3

\* ---- C4 ----------------------------------------------------------------------
\* The slot a set_left / set_right on view n writes, found by the children
\* iterator of the shared API.
SlotOf(t, op, n) == IF op = "set_left" THEN Children(t, n)[1] ELSE Children(t, n)[2]

\* C4: when the slot is already populated, set_left(v2) / set_right(v2)
\* changes that child's value to v2 and nothing else: its two children and its
\* whole subtree are the nodes they were, and no node is appended.
C4_OverwritePreserves ==
    [][(last'.op \in {"set_left", "set_right"} /\ last'.was # None) =>
          /\ ~failed'
          /\ tree' = [tree EXCEPT ![SlotOf(tree, last'.op, last'.n)].value = last'.v]
          /\ LayoutFrom(tree', last'.ret, <<>>) \ {<<(<<>>), last'.v>>}
               = LayoutFrom(tree, last'.ret, <<>>) \ {<<(<<>>), last'.was>>}
      ]_vars

\* set_left has just overwritten v1 by another value on a child that has a
\* populated child of its own.
C4_Witness ==
    /\ Did("set_left")
    /\ last.was \notin {None, last.v}
    /\ IsView(RefRight(tree, last.ret))

\* ---- C5 ----------------------------------------------------------------------
\* C5: every node of the arena has exactly two children when it is populated
\* and none when it is a placeholder, and the root is populated.
C5_Shape ==
    /\ tree[RootId].value # None
    /\ \A id \in NodeIds(tree) :
          LET want == IF tree[id].value # None THEN 2 ELSE 0
          IN  /\ Len(Children(tree, id)) = want
              /\ Cardinality(ChildSet(tree, id)) = want
              /\ \A i \in 1..want : Children(tree, id)[i] \in ChildSet(tree, id)

C5_Witness ==
    /\ ~failed
    /\ Len(tree) >= 7
    /\ \E id \in NodeIds(tree) \ {RootId} :
          /\ tree[id].value # None
          /\ \E c \in ChildSet(tree, id) : tree[c].value # None
          /\ \E c \in ChildSet(tree, id) : tree[c].value = None

\* ---- C6 ----------------------------------------------------------------------
\* C6: no step turns a populated node into a placeholder or takes a node out
\* of the tree: every node stays in the arena, under the same parent, among
\* its parent's children, and populated if it was.
C6_OneWay ==
    [][tree' = tree \/ \A id \in NodeIds(tree) :
          /\ id \in NodeIds(tree')
          /\ tree[id].value # None => tree'[id].value # None
          /\ tree'[id].parent = tree[id].parent
          /\ id # RootId =>
                \E i \in 1..Len(Children(tree', tree[id].parent)) :
                    Children(tree', tree[id].parent)[i] = id
      ]_vars

\* A value has just been stored over the value of a populated node that has
\* a populated child.
C6_Witness ==
    /\ Did("mut_value")
    /\ last.ret # last.v
    /\ tree[last.n].value = last.v
    /\ \E c \in ChildSet(tree, last.n) : tree[c].value # None

\* ---- C7 ----------------------------------------------------------------------
\* C7: no expect(...) ever fires: every alive view is over a populated node
\* that has both child nodes, so value(), left(), right(), set_left(v) and
\* set_right(v) on it do not panic; left() and right() give a view or absent.
C7_NoPanic ==
    /\ ~failed
    /\ \A n \in refs :
          /\ tree[n].value # None
          /\ RefValue(tree, n) # Panic
          /\ RefLeft(tree, n) # Panic
          /\ RefRight(tree, n) # Panic
    /\ \A i \in 1..Len(muts) :
          /\ tree[muts[i]].value # None
          /\ Len(Children(tree, muts[i])) = 2
          /\ MutValue(tree, muts[i]) # Panic
          /\ MutLeft(tree, muts[i]) # Panic
          /\ MutRight(tree, muts[i]) # Panic
          /\ \A v \in Values :
                /\ SetLeft(tree, muts[i], v).ret # Panic
                /\ SetRight(tree, muts[i], v).ret # Panic

\* left() on an exclusive view below the root has just answered absent.
C7_Witness ==
    /\ Did("mut_left")
    /\ last.ret = None
    /\ Len(muts) >= 2
    /\ last.n = Top

\* ---- C8 ----------------------------------------------------------------------
\* The positions a literal names below path, with their values.
RECURSIVE Named(_, _)
NamedSide(side, path) ==
    IF Len(side) = 0 THEN {}
    ELSE {<<path, side[1]>>} \cup (IF Len(side) = 2 THEN Named(side[2], path) ELSE {})

Named(c, path) ==
    NamedSide(c.left, path \o <<"L">>) \cup NamedSide(c.right, path \o <<"R">>)

\* The exclusive view reached from view n by left() / right() along path.
RECURSIVE Descend(_, _, _)
Descend(t, n, path) ==
    IF path = <<>> \/ ~IsView(n) THEN n
    ELSE Descend(t, IF Head(path) = "L" THEN MutLeft(t, n) ELSE MutRight(t, n),
                 Tail(path))

\* The explicit construction: BinaryTree::new(root), then for each named
\* position, shortest paths first, root_mut(), left() / right() down to its
\* parent, and set_left / set_right there.
RECURSIVE ExplicitSets(_, _)
ExplicitSets(t, todo) ==
    IF todo = {} THEN t
    ELSE LET p == CHOOSE x \in todo : \A y \in todo : Len(x[1]) <= Len(y[1])
             parent == Descend(t, RootId, SubSeq(p[1], 1, Len(p[1]) - 1))
             next == IF p[1][Len(p[1])] = "L" THEN SetLeft(t, parent, p[2])
                     ELSE SetRight(t, parent, p[2])
         IN  ExplicitSets(next.tree, todo \ {p})

ExplicitBuild(in) ==
    ExplicitSets(New(in[1]), IF Len(in) = 1 THEN {} ELSE Named(in[2], <<>>))

\* C8: the tree binary_tree! builds from a literal shows, at every position
\* reachable by left() / right() from the root, what the tree built by new and
\* explicit set_left / set_right calls shows; the positions present are the
\* root and the positions the literal names.
C8_MacroRoundTrip ==
    last.op = "binary_tree!" =>
        /\ ~failed
        /\ Layout(tree) = Layout(ExplicitBuild(input))
        /\ Layout(tree) = {<<(<<>>), input[1]>>}
                          \cup (IF Len(input) = 1 THEN {} ELSE Named(input[2], <<>>))

\* A literal with a left leaf and a right subtree that has a subtree itself.
C8_Witness ==
    /\ Did("binary_tree!")
    /\ Len(input) = 2
    /\ Len(input[2].left) = 1
    /\ Len(input[2].right) = 2
    /\ Len(input[2].right[2].left) = 2
    /\ Len(tree) = 9

\* ---- C9 ----------------------------------------------------------------------
\* C9: while an exclusive view is alive no shared view is alive; the alive
\* exclusive views form one chain of reborrows from the root down, each a
\* child of the one it reborrows, so no node has two of them and only the last
\* is usable; shared views coexist only while no exclusive view is alive.
C9_Aliasing ==
    /\ muts # <<>> => refs = {}
    /\ muts # <<>> => muts[1] = RootId
    /\ \A i \in 1..Len(muts) - 1 : tree[muts[i + 1]].parent = muts[i]
    /\ \A i, j \in 1..Len(muts) : muts[i] = muts[j] => i = j

\* right() on the exclusive view of the root has just returned an exclusive
\* view of its right child: two exclusive views are alive, one reborrowing the
\* other.
C9_Witness ==
    /\ Did("mut_right")
    /\ IsView(last.ret)
    /\ Len(muts) = 2
    /\ muts[1] = RootId
    /\ Top = last.ret

\* ---- C10 ---------------------------------------------------------------------
\* The step was a set_left / set_right that wrote slot and left its sibling
\* slot and everything else alone.
FrameOfSet(slot) ==
    /\ \A id \in NodeIds(tree) \ {slot} : id \in NodeIds(tree') /\ tree'[id] = tree[id]
    /\ slot \in NodeIds(tree')
    /\ tree'[slot].value = last'.v
    /\ tree'[slot].parent = tree[slot].parent
    /\ tree'[slot].prev_sibling = tree[slot].prev_sibling
    /\ tree'[slot].next_sibling = tree[slot].next_sibling
    /\ IF tree[slot].children # <<>>
       THEN tree'[slot].children = tree[slot].children /\ Len(tree') = Len(tree)
       ELSE /\ Len(tree') = Len(tree) + 2
            /\ Children(tree', slot) = <<Len(tree) + 1, Len(tree) + 2>>
            /\ \A id \in {Len(tree) + 1, Len(tree) + 2} :
                  /\ tree'[id].value = None
                  /\ tree'[id].parent = slot
                  /\ tree'[id].children = <<>>

\* The step was a set_left(a) / set_right(a) on view n: whatever b the other
\* slot of n is then set to, the layout is the one the two calls give when
\* made in the other order from the state before the step.
SetsCommute(n) ==
    \A b \in Values :
        IF last'.op = "set_left"
        THEN \A here \in {SetRight(tree', n, b).tree},
                other \in {SetRight(tree, n, b).tree} :
                \A there \in {SetLeft(other, n, last'.v).tree} :
                    Layout(here) = Layout(there)
        ELSE \A here \in {SetLeft(tree', n, b).tree},
                other \in {SetLeft(tree, n, b).tree} :
                \A there \in {SetRight(other, n, last'.v).tree} :
                    Layout(here) = Layout(there)

\* C10: n.set_left(v) changes the value of n's left child, appends two
\* placeholders under it when it had no children, and changes nothing else;
\* n.set_right(v) likewise for the right child; so set_left(a) and
\* set_right(b) on one node give the same layout in either order.
C10_Frame ==
    [][(last'.op \in {"set_left", "set_right"} /\ ~failed') =>
          /\ FrameOfSet(SlotOf(tree, last'.op, last'.n))
          /\ SetsCommute(last'.n)
      ]_vars

\* set_left has just populated the left slot of a node whose right child is
\* populated with another value.
C10_Witness ==
    /\ Did("set_left")
    /\ last.was = None
    /\ IsView(RefRight(tree, last.n))
    /\ RefValue(tree, RefRight(tree, last.n)) # last.v

====
